---- MODULE Spec2Model ----
(***************************************************************************)
(* Model of scripts/build_scripts/build_zips.py: the two multi-architecture *)
(* build drivers, make_android_multi_arch_build (sequential builds) and     *)
(* make_macos_multi_arch_build (one thread per architecture), and the merge *)
(* of the per-architecture archives into one final archive.                 *)
(***************************************************************************)
EXTENDS Integers, Sequences, FiniteSets, TLC

\* ------------------------------------------------------------------ bounds
\* longest target list handed to the sequential (android) driver
MaxTargets == 3
\* longest target list handed to the threaded (macos) driver
MaxThreads == 2

\* most merge-tool invocations of one run that exit non-zero
MaxToolFailures == 1

\* ------------------------------------------------------- external world
\* architecture tags: two of the tags either platform accepts, written as on
\* macos
Archs == {"arm64", "x86_64"}

\* an archive left in the build directory by an earlier run, and the one
\* cpack writes in this run (both match *Android.zip / *Darwin.zip)
StaleZip == "firebase_unity-1.0.0.zip"
BuiltZip == "firebase_unity-2.0.0.zip"

\* exit statuses of the external processes
ExitCodes == {0, 2}

VARIABLES
  platform,                 \* "android" | "macos"  (FLAGS.platform)
  g_target_architectures,   \* the target list (global of the script)
  cmake_args,               \* the architecture flags appended to the caller's argument list
  zips,                     \* arch directory -> archives in it that match the pattern
  zipEntries,               \* arch directory -> entry list of its archives, fixed when first opened
  pc,                       \* position of the driver function
  tpc,                      \* position of the k-th build (a thread on macos)
  i,                        \* index of the driver's current loop
  last_call,                \* the command the k-th build last passed to subprocess.call
  build_failed,             \* whether some build step so far exited non-zero
  zip_base_name,            \* "" or the name of the base archive
  payload_list,             \* srcarr_list / bundle_list
  temp_dirs,                \* trees of the directories made by mkdtemp, in creation order
  b,                        \* index into payload_list of the inner merge loop
  tool_procs,               \* the merge-tool processes that are running
  mergeLog,                 \* the merge-tool invocations that have exited
  final_zip,                \* <<>>, or <<file>>: the file at final_zip_path
  log,                      \* the records passed to logging so far
  result                    \* "" or what the driver function returned

vars == <<platform, g_target_architectures, cmake_args, zips, zipEntries, pc,
          tpc, i, last_call, build_failed, zip_base_name, payload_list, temp_dirs,
          b, tool_procs, mergeLog, final_zip, log, result>>

\* ------------------------------------------------------------ file names
\* suffix of the payload files of a platform
PayloadExt(plat) == IF plat = "android" THEN ".srcaar" ELSE ".bundle"

\* a file name is the sequence of its parts, "lib" "foo" ".srcaar"; a path is
\* a directory and a file name
Path(d, n) == [dir |-> d, name |-> n]

\* os.path.basename
basename(p) == p.name

\* str.endswith / the glob pattern "*" + name
EndsWith(s, t) ==
  /\ Len(t) <= Len(s)
  /\ SubSeq(s, Len(s) - Len(t) + 1, Len(s)) = t

\* the entry lists an archive of the platform may have
Foo(plat)    == Path("Plugins", <<"foo", PayloadExt(plat)>>)
LibFoo(plat) == Path("Plugins", <<"lib", "foo", PayloadExt(plat)>>)
Readme       == Path("", <<"readme", ".txt">>)
Contents(plat) ==
  { {Foo(plat), Readme}, {Foo(plat), LibFoo(plat), Readme},
    {LibFoo(plat), Readme}, {Readme} }

\* all orders in which a glob may list a set of files
Perms(S) ==
  { f \in [1..Cardinality(S) -> S] : \A x \in S : \E k \in DOMAIN f : f[k] = x }

\* -------------------------------------------------------------- helpers
\* a command line: the program and the architecture flags among its arguments
Call(cmd, flags) == [cmd |-> cmd, flags |-> flags]

NumTargets == Len(g_target_architectures)

TargetLists(n) == UNION { [1..k -> Archs] : k \in 2..n }

EmptyTree == [p \in {} |-> <<>>]

\* a record passed to logging.error / logging.debug / logging.info: the
\* message and the architecture and file it names ("" when it names none)
LogRecord(level, msg, arch, file) ==
  [level |-> level, msg |-> msg, arch |-> arch, file |-> file]

\* the value of a call of a function that ends without "return <value>"
None == "None"

\* ----------------------------------------------------------------- Init
Init ==
  /\ platform \in {"android", "macos"}
  /\ g_target_architectures \in
       TargetLists(IF platform = "android" THEN MaxTargets ELSE MaxThreads)
  /\ cmake_args = <<>>
  /\ zips \in [Archs -> {{}, {StaleZip}}]
  /\ \A a \in Archs :
       (\A k \in DOMAIN g_target_architectures : g_target_architectures[k] # a)
         => zips[a] = {}
  /\ zipEntries = EmptyTree
  /\ pc = IF platform = "android" THEN "build" ELSE "spawn"
  /\ tpc = [k \in DOMAIN g_target_architectures |-> "unstarted"]
  /\ i = 1
  /\ last_call = [k \in DOMAIN g_target_architectures |-> Call("", <<>>)]
  /\ build_failed = FALSE
  /\ zip_base_name = ""
  /\ payload_list = <<>>
  /\ temp_dirs = <<>>
  /\ b = 1
  /\ tool_procs = {}
  /\ mergeLog = <<>>
  /\ final_zip = <<>>
  /\ log = {}
  /\ result = ""

\* ---------------------------------------------------- one build's steps
\* os.makedirs(arch) and cmake_args.append(<arch flag>): the list appended to
\* is the caller's list object, the same one for every architecture
SetupStep(k, from) ==
  /\ tpc[k] = from
  /\ cmake_args' = Append(cmake_args, g_target_architectures[k])
  /\ tpc' = [tpc EXCEPT ![k] = "configure"]
  /\ UNCHANGED <<zips, last_call, build_failed>>

\* subprocess.call(cmake_args, cwd=build_dir): the exit status is dropped
ConfigureStep(k) ==
  /\ tpc[k] = "configure"
  /\ \E status \in ExitCodes :
       build_failed' = (build_failed \/ status # 0)
  /\ last_call' = [last_call EXCEPT ![k] = Call("cmake", cmake_args)]
  /\ tpc' = [tpc EXCEPT ![k] = "make"]
  /\ UNCHANGED <<cmake_args, zips>>

\* (variant: a non-zero exit status raises, as with check_call, and ends
\* the build)
MakeStep_CheckCall(k) ==
  /\ tpc[k] = "make"
  /\ \E status \in ExitCodes :
       /\ build_failed' = (build_failed \/ status # 0)
       /\ tpc' = [tpc EXCEPT ![k] = IF status = 0 THEN "package" ELSE "raised"]
  /\ last_call' = [last_call EXCEPT ![k] = Call("make", <<>>)]
  /\ UNCHANGED <<cmake_args, zips>>

\* subprocess.call("make", cwd=build_dir): the exit status is dropped
MakeStep(k) ==
  /\ tpc[k] = "make"
  /\ \E status \in ExitCodes :
       build_failed' = (build_failed \/ status # 0)
  /\ last_call' = [last_call EXCEPT ![k] = Call("make", <<>>)]
  /\ tpc' = [tpc EXCEPT ![k] = "package"]
  /\ UNCHANGED <<cmake_args, zips>>

\* subprocess.call(["cpack", "."], cwd=build_dir): writes the archive when it
\* succeeds
PackageStep(k) ==
  /\ tpc[k] = "package"
  /\ \E status \in ExitCodes :
       /\ build_failed' = (build_failed \/ status # 0)
       /\ zips' = IF status = 0
                  THEN [zips EXCEPT ![g_target_architectures[k]] = @ \cup {BuiltZip}]
                  ELSE zips
  /\ last_call' = [last_call EXCEPT ![k] = Call("cpack", <<>>)]
  /\ tpc' = [tpc EXCEPT ![k] = "done"]
  /\ UNCHANGED cmake_args

MergeVars == <<zipEntries, zip_base_name, payload_list, temp_dirs,
               b, tool_procs, mergeLog, final_zip, log, result>>

\* --------------------------------- make_android_multi_arch_build: builds
AndroidSetup ==
  /\ platform = "android" /\ pc = "build"
  /\ SetupStep(i, "unstarted")
  /\ UNCHANGED <<platform, g_target_architectures, pc, i, MergeVars>>

AndroidConfigure ==
  /\ platform = "android" /\ pc = "build"
  /\ ConfigureStep(i)
  /\ UNCHANGED <<platform, g_target_architectures, pc, i, MergeVars>>

AndroidMake ==
  /\ platform = "android" /\ pc = "build"
  /\ MakeStep(i)
  /\ UNCHANGED <<platform, g_target_architectures, pc, i, MergeVars>>

\* the last step of an iteration; after the last architecture the loop ends
AndroidPackage ==
  /\ platform = "android" /\ pc = "build"
  /\ PackageStep(i)
  /\ IF i < NumTargets
       THEN i' = i + 1 /\ pc' = pc
       ELSE i' = 1 /\ pc' = "mkdtemp"
  /\ UNCHANGED <<platform, g_target_architectures, MergeVars>>

\* ------------------------------------- make_macos_arch, run by thread k
MacosArchSetup(k) ==
  /\ platform = "macos"
  /\ SetupStep(k, "setup")
  /\ UNCHANGED <<platform, g_target_architectures, pc, i, MergeVars>>

MacosArchConfigure(k) ==
  /\ platform = "macos"
  /\ ConfigureStep(k)
  /\ UNCHANGED <<platform, g_target_architectures, pc, i, MergeVars>>

MacosArchMake(k) ==
  /\ platform = "macos"
  /\ MakeStep(k)
  /\ UNCHANGED <<platform, g_target_architectures, pc, i, MergeVars>>

MacosArchPackage(k) ==
  /\ platform = "macos"
  /\ PackageStep(k)
  /\ UNCHANGED <<platform, g_target_architectures, pc, i, MergeVars>>

\* ---------------------------- make_macos_multi_arch_build: start and join
\* (variant: the thread is made and kept in the list, and never started)
MacosSpawn_NoStart ==
  /\ platform = "macos" /\ pc = "spawn"
  /\ IF i < NumTargets
       THEN i' = i + 1 /\ pc' = pc
       ELSE i' = 1 /\ pc' = "join"
  /\ UNCHANGED <<platform, g_target_architectures, cmake_args, zips, tpc,
                 last_call, build_failed, MergeVars>>

\* t = threading.Thread(...); t.start(); threads.append(t)
MacosSpawn ==
  /\ platform = "macos" /\ pc = "spawn"
  /\ tpc' = [tpc EXCEPT ![i] = "setup"]
  /\ IF i < NumTargets
       THEN i' = i + 1 /\ pc' = pc
       ELSE i' = 1 /\ pc' = "join"
  /\ UNCHANGED <<platform, g_target_architectures, cmake_args, zips,
                 last_call, build_failed, MergeVars>>

\* (variant: a join that does not wait for the thread's end)
JoinReturns_NoWait(k) == tpc[k] # "unstarted"

\* t.join() returns once thread t has run to its end
JoinReturns(k) == tpc[k] = "done"

MacosJoin ==
  /\ platform = "macos" /\ pc = "join"
  /\ JoinReturns(i)
  /\ IF i < NumTargets
       THEN i' = i + 1 /\ pc' = pc
       ELSE i' = 1 /\ pc' = "mkdtemp"
  /\ UNCHANGED <<platform, g_target_architectures, cmake_args, zips, tpc,
                 last_call, build_failed, MergeVars>>

\* ------------------------------------------------------- the merge phase
BuildVars == <<cmake_args, zips, tpc, last_call, build_failed>>

\* (variant: the architectures are gone through from the last to the first)
CurrentArch_Reversed == g_target_architectures[NumTargets + 1 - i]

CurrentArch == g_target_architectures[i]

\* zipfile.ZipFile(path).namelist(): the entry list of an archive is an
\* input; the archives of one architecture's directory have the same entry
\* list, which is fixed the first time one of them is opened
CanRead(arch, entries) ==
  IF arch \in DOMAIN zipEntries
    THEN entries = zipEntries[arch]
    ELSE entries \in Contents(platform)

\* a file as extracted from an architecture's archive: one slice
Extracted(arch, entries) ==
  [p \in entries |-> <<[arch |-> arch, name |-> basename(p)]>>]

\* file.endswith('.srcaar') / glob("**/*.srcaar")
IsPayload(p) == EndsWith(basename(p), <<PayloadExt(platform)>>)

\* glob(os.path.join(temporary_dir, "**", "*" + srcaar_name), recursive=True)
MatchingFiles(tree, base_file) ==
  { p \in DOMAIN tree : EndsWith(basename(p), basename(base_file)) }

\* (variant: the loop ends one architecture early)
NextArch_OffByOne ==
  IF i < NumTargets - 1
    THEN i' = i + 1 /\ pc' = "find"
    ELSE i' = i /\ pc' = "pack"

\* the loop "for arch in g_target_architectures" goes on to the next
\* architecture, or ends
NextArch ==
  IF i < NumTargets
    THEN i' = i + 1 /\ pc' = "find"
    ELSE i' = i /\ pc' = "pack"

\* zip_base_name = ""; list = []; base_temp_dir = tempfile.mkdtemp()
Mkdtemp ==
  /\ pc = "mkdtemp"
  /\ zip_base_name' = ""
  /\ payload_list' = <<>>
  /\ temp_dirs' = <<EmptyTree>>
  /\ i' = 1
  /\ pc' = "find"
  /\ UNCHANGED <<platform, g_target_architectures, BuildVars, zipEntries,
                 b, tool_procs, mergeLog, final_zip, log, result>>

\* arch_zip_path = glob(arch/*Android.zip)
ArchZipPath(arch) == zips[arch]

\* (variant: "continue" in place of "return")
NoArchive_Continue ==
  /\ pc = "find"
  /\ ArchZipPath(CurrentArch) = {}
  /\ NextArch
  /\ UNCHANGED <<platform, g_target_architectures, BuildVars, zipEntries,
                 zip_base_name, payload_list, temp_dirs, b, tool_procs,
                 mergeLog, final_zip, log, result>>

\* "if not arch_zip_path: logging.error(...); return"
NoArchive ==
  /\ pc = "find"
  /\ ArchZipPath(CurrentArch) = {}
  /\ log' = log \cup {LogRecord("error", "No zip generated", CurrentArch, "")}
  /\ result' = None
  /\ pc' = "done"
  /\ UNCHANGED <<platform, g_target_architectures, BuildVars, zipEntries, i,
                 zip_base_name, payload_list, temp_dirs, b, tool_procs,
                 mergeLog, final_zip>>

\* first architecture: arch_zip_path[0] is extracted into base_temp_dir and
\* its payload files are listed
ExtractBase ==
  /\ pc = "find"
  /\ zip_base_name = ""
  /\ \E zip \in ArchZipPath(CurrentArch) : zip_base_name' = zip
  /\ \E entries \in Contents(platform) :
       /\ CanRead(CurrentArch, entries)
       /\ zipEntries' = (CurrentArch :> entries) @@ zipEntries
       /\ temp_dirs' = [temp_dirs EXCEPT ![1] = Extracted(CurrentArch, entries)]
       /\ payload_list' \in Perms({ p \in entries : IsPayload(p) })
  /\ NextArch
  /\ UNCHANGED <<platform, g_target_architectures, BuildVars, b, tool_procs,
                 mergeLog, final_zip, log, result>>

\* (variant: the payload files of a later architecture are extracted into
\* base_temp_dir as well)
ExtractScratch_IntoBase ==
  /\ pc = "find"
  /\ zip_base_name # ""
  /\ ArchZipPath(CurrentArch) # {}
  /\ \E entries \in Contents(platform) :
       /\ CanRead(CurrentArch, entries)
       /\ zipEntries' = (CurrentArch :> entries) @@ zipEntries
       /\ temp_dirs' = Append(
            [temp_dirs EXCEPT ![1] =
               Extracted(CurrentArch, { p \in entries : IsPayload(p) }) @@ @],
            Extracted(CurrentArch, { p \in entries : IsPayload(p) }))
       /\ log' = log \cup { LogRecord("debug", "Unpacked file", CurrentArch, p) :
                               p \in { q \in entries : IsPayload(q) } }
  /\ b' = 1
  /\ IF payload_list = <<>>
       THEN NextArch
       ELSE i' = i /\ pc' = "merge"
  /\ UNCHANGED <<platform, g_target_architectures, BuildVars, zip_base_name,
                 payload_list, tool_procs, mergeLog, final_zip, result>>

\* later architectures: the payload files of arch_zip_path[0] are extracted
\* into a new temporary_dir
ExtractScratch ==
  /\ pc = "find"
  /\ zip_base_name # ""
  /\ ArchZipPath(CurrentArch) # {}
  /\ \E entries \in Contents(platform) :
       /\ CanRead(CurrentArch, entries)
       /\ zipEntries' = (CurrentArch :> entries) @@ zipEntries
       /\ temp_dirs' = Append(temp_dirs,
                         Extracted(CurrentArch, { p \in entries : IsPayload(p) }))
       /\ log' = log \cup { LogRecord("debug", "Unpacked file", CurrentArch, p) :
                               p \in { q \in entries : IsPayload(q) } }
  /\ b' = 1
  /\ IF payload_list = <<>>
       THEN NextArch
       ELSE i' = i /\ pc' = "merge"
  /\ UNCHANGED <<platform, g_target_architectures, BuildVars, zip_base_name,
                 payload_list, tool_procs, mergeLog, final_zip, result>>

\* the exit statuses the next merge-tool call may return
ToolFailures == Cardinality({ n \in DOMAIN mergeLog : mergeLog[n].status # 0 })
ToolExitCodes == IF ToolFailures < MaxToolFailures THEN ExitCodes ELSE {0}

\* what the merge tool leaves in the base file: the slices of both files when
\* it exits with 0; a failing tool writes no output
MergeOutcome(status, base_content, incoming_content) ==
  IF status = 0
    THEN base_content \o incoming_content
    ELSE base_content

\* the loop "for srcaar_file in srcarr_list" goes on to the next base
\* payload file, or ends
NextPayload ==
  IF b < Len(payload_list)
    THEN b' = b + 1 /\ i' = i /\ pc' = "merge"
    ELSE b' = 1 /\ NextArch

\* (variant: a base payload file without a match ends the function)
NoMatch_Return == b' = b /\ i' = i /\ pc' = "done"

\* "if matching_files:" is false: nothing is done for this base payload file
NoMatch == NextPayload

\* (variant: the tool is started and not waited for, as with Popen)
MergeOne_NoWait ==
  /\ pc = "merge"
  /\ LET base_file      == payload_list[b]
         temporary_dir  == temp_dirs[Len(temp_dirs)]
         matching_files == MatchingFiles(temporary_dir, base_file)
     IN IF matching_files = {}
          THEN /\ UNCHANGED tool_procs
               /\ NoMatch
          ELSE /\ \E m \in matching_files :
                    tool_procs' = tool_procs \cup
                      { [base |-> base_file, incoming |-> m,
                         arch |-> CurrentArch, index |-> i] }
               /\ NextPayload
  /\ UNCHANGED <<platform, g_target_architectures, BuildVars, zipEntries,
                 zip_base_name, payload_list, temp_dirs, mergeLog, final_zip,
                 log, result>>

\* one iteration of "for srcaar_file in srcarr_list" up to the start of the
\* merge tool: subprocess.call(merge_args) with matching_files[0], any one of
\* the files the glob found
MergeOne ==
  /\ pc = "merge"
  /\ LET base_file      == payload_list[b]
         temporary_dir  == temp_dirs[Len(temp_dirs)]
         matching_files == MatchingFiles(temporary_dir, base_file)
     IN IF matching_files = {}
          THEN /\ UNCHANGED tool_procs
               /\ NoMatch
          ELSE /\ \E m \in matching_files :
                    tool_procs' = tool_procs \cup
                      { [base |-> base_file, incoming |-> m,
                         arch |-> CurrentArch, index |-> i] }
               /\ b' = b /\ i' = i /\ pc' = "call"
  /\ UNCHANGED <<platform, g_target_architectures, BuildVars, zipEntries,
                 zip_base_name, payload_list, temp_dirs, mergeLog, final_zip,
                 log, result>>

\* subprocess.call returns when the merge tool has exited; its exit status is
\* dropped and the loop goes on
MergeReturns ==
  /\ pc = "call"
  /\ \E proc \in tool_procs, status \in ToolExitCodes :
       /\ tool_procs' = tool_procs \ {proc}
       /\ mergeLog' = Append(mergeLog,
            [base |-> proc.base, incoming |-> proc.incoming, arch |-> proc.arch,
             index |-> proc.index, status |-> status])
       /\ temp_dirs' = [temp_dirs EXCEPT ![1][proc.base] =
            MergeOutcome(status, @, temp_dirs[Len(temp_dirs)][proc.incoming])]
       /\ log' = log \cup {LogRecord("debug", "merging", proc.arch, proc.base)}
  /\ NextPayload
  /\ UNCHANGED <<platform, g_target_architectures, BuildVars, zipEntries,
                 zip_base_name, payload_list, final_zip, result>>

\* the file at final_zip_path when the files in "written" have been added
ZipFileAt(written, complete) ==
  [name     |-> zip_base_name,
   entries  |-> [p \in written |-> temp_dirs[1][p]],
   complete |-> complete]

\* zipfile.ZipFile(final_zip_path, "w") creates the file and zip_file.write
\* adds the files of base_temp_dir one by one; an I/O error leaves the
\* function by an exception, with the entries written so far in the file
\* (here the error is in the first write: the file has no entry yet)
PackFails ==
  /\ pc = "pack"
  /\ final_zip' = <<ZipFileAt({}, FALSE)>>
  /\ pc' = "raised"
  /\ UNCHANGED <<platform, g_target_architectures, BuildVars, zipEntries, i,
                 zip_base_name, payload_list, temp_dirs, b, tool_procs,
                 mergeLog, log, result>>

\* zipfile.ZipFile(final_zip_path, "w") with every file of base_temp_dir;
\* logging.info(...); the function ends
Pack ==
  /\ pc = "pack"
  /\ final_zip' = <<ZipFileAt(DOMAIN temp_dirs[1], TRUE)>>
  /\ log' = log \cup {LogRecord("info", "Generated multi-arch zip", "", "")}
  /\ result' = None
  /\ pc' = "done"
  /\ UNCHANGED <<platform, g_target_architectures, BuildVars, zipEntries, i,
                 zip_base_name, payload_list, temp_dirs, b, tool_procs,
                 mergeLog>>

BuildNext ==
  \/ AndroidSetup \/ AndroidConfigure \/ AndroidMake \/ AndroidPackage
  \/ \E k \in DOMAIN tpc :
       \/ MacosArchSetup(k) \/ MacosArchConfigure(k)
       \/ MacosArchMake(k) \/ MacosArchPackage(k)
  \/ MacosSpawn \/ MacosJoin

MergeNext ==
  \/ Mkdtemp \/ NoArchive \/ ExtractBase \/ ExtractScratch
  \/ MergeOne \/ MergeReturns \/ Pack \/ PackFails

Next == BuildNext \/ MergeNext

Spec == Init /\ [][Next]_vars

\* ------------------------ make_macos_multi_arch_build under fair scheduling
\* a run of the threaded driver
MacosInit == Init /\ platform = "macos"

\* a step of thread k (make_macos_arch)
ThreadStep(k) ==
  /\ k \in DOMAIN tpc
  /\ \/ MacosArchSetup(k) \/ MacosArchConfigure(k)
     \/ MacosArchMake(k) \/ MacosArchPackage(k)

\* a step of the main thread
MainStep == MacosSpawn \/ MacosJoin \/ MergeNext

MacosNext == MainStep \/ \E k \in 1..MaxThreads : ThreadStep(k)

\* every thread that can take a step takes one in the end (the threads are
\* scheduled fairly, and the process a thread or the main thread waits for
\* in subprocess.call exits)
MacosFairness ==
  /\ WF_vars(MainStep)
  /\ \A k \in 1..MaxThreads : WF_vars(ThreadStep(k))

MacosFairSpec == MacosInit /\ [][MacosNext]_vars /\ MacosFairness

\* ---------------------------------------------------------------- claims
AllBuildsDone == \A k \in DOMAIN tpc : tpc[k] = "done"

MergePhase == {"mkdtemp", "find", "merge", "call", "pack", "done", "raised"}

Returned == pc = "done"

FinalArchiveWritten == final_zip # <<>>

ToolFailed(n) == mergeLog[n].status # 0

\* the merge-tool invocations with base file x
MergesInto(x) == { n \in DOMAIN mergeLog : mergeLog[n].base = x }

\* C1: when a build step of some architecture exited non-zero, the function
\* returns without having written the final archive.
C1_NoFinalArchiveAfterFailedBuild ==
  (Returned /\ build_failed) => ~FinalArchiveWritten

\* C2: a merge-tool invocation that exits non-zero is the last one of the
\* run, and the staging tree is not packed afterwards.
C2_AbortOnMergeToolError ==
  \A n \in DOMAIN mergeLog :
    ToolFailed(n) => (n = Len(mergeLog) /\ pc # "pack" /\ ~FinalArchiveWritten)

\* C3: on macos the driver is in the merge phase (temp directory creation,
\* archive lookup, extraction, merge, packing, return) only when every build
\* thread has run all of its steps.
C3_MergeOnlyAfterAllBuilds ==
  (platform = "macos" /\ pc \in MergePhase) => AllBuildsDone

\* C3 witness: the merge loop is running on macos and a merge-tool call has
\* been made.
C3_Witness ==
  platform = "macos" /\ pc = "merge" /\ mergeLog # <<>> /\ AllBuildsDone

\* C4: on macos the configure command of an architecture is started with
\* the flag of that architecture and of no other.
C4_ConfigureSeesOwnFlagOnly ==
  platform = "macos" =>
    \A k \in DOMAIN tpc :
      last_call[k].cmd = "cmake"
        => last_call[k].flags = <<g_target_architectures[k]>>

\* C5: the merge tool is only ever given a base file and an incoming file
\* with the same base filename.
C5_MergeSameIdentityOnly ==
  \A n \in DOMAIN mergeLog :
    basename(mergeLog[n].incoming) = basename(mergeLog[n].base)

\* C6: once the builds are over, if the directory of some architecture of the
\* target list holds no matching archive, no final archive is written.
C6_NoFinalArchiveWhenArchiveMissing ==
  (AllBuildsDone /\ \E k \in DOMAIN g_target_architectures :
                       zips[g_target_architectures[k]] = {})
    => ~FinalArchiveWritten

\* C6 witness: the run returned without a final archive; the first
\* architecture had an archive, which was extracted, and the last had none.
C6_Witness ==
  /\ Returned /\ ~FinalArchiveWritten
  /\ zip_base_name # ""
  /\ zips[g_target_architectures[NumTargets]] = {}

\* C7: when the directory of some architecture holds more than one matching
\* archive, the run neither merges nor packs.
C7_AmbiguousArchiveRejected ==
  (AllBuildsDone /\ \E k \in DOMAIN g_target_architectures :
                       Cardinality(zips[g_target_architectures[k]]) > 1)
    => (mergeLog = <<>> /\ ~FinalArchiveWritten)

\* C8: when the function returns, no temporary directory it made exists.
C8_TempDirsRemovedOnReturn ==
  Returned => temp_dirs = <<>>

\* the non-base archives each hold exactly one file with the base filename
\* of x
InEveryOtherArchive(x) ==
  \A k \in 2..NumTargets :
    /\ g_target_architectures[k] \in DOMAIN zipEntries
    /\ Cardinality({ p \in zipEntries[g_target_architectures[k]] :
                       basename(p) = basename(x) }) = 1

\* C9: after a run that went through every architecture, a base payload file
\* that every non-base archive has under the same base filename has been the
\* base of exactly one merge-tool invocation per non-base architecture, N-1
\* in all.
C9_OneMergePerOtherArchitecture ==
  (Returned /\ FinalArchiveWritten) =>
    \A n \in DOMAIN payload_list :
      InEveryOtherArchive(payload_list[n]) =>
        /\ Cardinality(MergesInto(payload_list[n])) = NumTargets - 1
        /\ \A k \in 2..NumTargets :
             Cardinality({ m \in MergesInto(payload_list[n]) :
                             mergeLog[m].index = k }) = 1

\* C9 witness: three targets, two base payload files listed with the longer
\* name first, and one of them merged twice.
C9_Witness ==
  /\ Returned /\ FinalArchiveWritten
  /\ NumTargets = 3
  /\ Len(payload_list) = 2
  /\ Len(basename(payload_list[1])) > Len(basename(payload_list[2]))
  /\ \E n \in DOMAIN payload_list :
       /\ InEveryOtherArchive(payload_list[n])
       /\ Cardinality(MergesInto(payload_list[n])) = 2

\* C10: no two merge-tool invocations of a run have the same base file and
\* the same architecture.
C10_NoSliceMergedTwice ==
  \A m, n \in DOMAIN mergeLog :
    (mergeLog[m].base = mergeLog[n].base /\ mergeLog[m].arch = mergeLog[n].arch)
      => m = n

\* the architecture each file of the staging tree was extracted from
StagingFrom(arch) ==
  \A p \in DOMAIN temp_dirs[1] :
    temp_dirs[1][p] # <<>> /\ temp_dirs[1][p][1].arch = arch

\* C11: once a base archive is chosen it is an archive of the first target's
\* directory, the staging tree holds that architecture's files, the final
\* archive has the base archive's name, and the merge-tool invocations go
\* through the remaining targets in list order; this holds under every
\* interleaving of the builds.
C11_BaseIsFirstTarget ==
  zip_base_name # "" =>
    /\ zip_base_name \in zips[g_target_architectures[1]]
    /\ StagingFrom(g_target_architectures[1])
    /\ FinalArchiveWritten => final_zip[1].name = zip_base_name
    /\ \A n \in DOMAIN mergeLog :
         /\ mergeLog[n].index \in 2..NumTargets
         /\ mergeLog[n].arch = g_target_architectures[mergeLog[n].index]
         /\ \A m \in DOMAIN mergeLog :
              m < n => mergeLog[m].index <= mergeLog[n].index

\* C11 witness: on macos the thread of the second target appended its flag
\* before the thread of the first, the targets differ, and the run merged
\* and wrote the final archive.
C11_Witness ==
  /\ platform = "macos" /\ Returned /\ FinalArchiveWritten
  /\ g_target_architectures[1] # g_target_architectures[2]
  /\ cmake_args[1] = g_target_architectures[2]
  /\ mergeLog # <<>>

\* every target's directory holds an archive
AllArchivesFound ==
  \A k \in DOMAIN g_target_architectures :
    ArchZipPath(g_target_architectures[k]) # {}

\* the base payload files
BasePayloads == { payload_list[n] : n \in DOMAIN payload_list }

\* the archive of the k-th target has a file with the identity of x
Present(x, k) ==
  \E p \in zipEntries[g_target_architectures[k]] : basename(p) = basename(x)

\* the merge tool was invoked with base file x for the k-th target
Merged(x, k) == \E n \in MergesInto(x) : mergeLog[n].index = k

\* C12: when a base payload file has no counterpart in the archive of some
\* non-base target, the function still runs to its end: every base payload
\* file is merged with every target whose archive has its identity, and the
\* final archive is written completely.
C12_MissingPayloadDoesNotAbort ==
  \A k \in 2..NumTargets :
    (Returned /\ AllArchivesFound) =>
      \A x \in BasePayloads :
        ~Present(x, k) =>
          /\ FinalArchiveWritten /\ final_zip[1].complete
          /\ DOMAIN final_zip[1].entries = DOMAIN temp_dirs[1]
          /\ \A j \in 2..NumTargets : \A y \in BasePayloads :
               Present(y, j) => Merged(y, j)

\* C12 witness: the second target's archive lacks a base payload file, which
\* is not merged for it; another payload file is merged for the second
\* target and the lacking one for the third; the final archive is written.
C12_Witness ==
  /\ Returned /\ FinalArchiveWritten /\ NumTargets = 3
  /\ \E x, y \in BasePayloads :
       /\ ~Present(x, 2) /\ ~Merged(x, 2)
       /\ Merged(y, 2) /\ Merged(x, 3)

\* some log record names the k-th target's architecture together with the
\* file x, or the returned value does (the returned value is None, which
\* names nothing)
Reported(x, k) ==
  \/ \E r \in log : r.arch = g_target_architectures[k] /\ r.file = x
  \/ result \notin {"", None}

\* the run ended with the report of a run without gaps: the function
\* returned None after logging that the archive was generated, and logged
\* nothing above debug level besides
FullySuccessfulReport ==
  /\ Returned /\ result = None
  /\ \A r \in log : r.level # "debug" => r.msg = "Generated multi-arch zip"
  /\ \E r \in log : r.msg = "Generated multi-arch zip"

\* C13: after a run in which every target had an archive, every pair of a
\* base payload file and a non-base target whose archive lacks that identity
\* is named in the log or in the returned value, and the run does not end
\* with the report of a fully successful run.
C13_MissingPayloadReported ==
  (Returned /\ AllArchivesFound) =>
    \A k \in 2..NumTargets : \A x \in BasePayloads :
      ~Present(x, k) => (Reported(x, k) /\ ~FullySuccessfulReport)

\* C14: a run that returns without the final archive (a target had no
\* archive) does not return the value a run that wrote the final archive
\* returns, which is None; what it returns names the architecture.
C14_FailureDistinctFromSuccess ==
  /\ (Returned /\ FinalArchiveWritten) => result = None
  /\ (Returned /\ ~FinalArchiveWritten) =>
       /\ result # None
       /\ \E k \in DOMAIN g_target_architectures :
            result = [reason |-> "BuildFailed",
                      architecture |-> g_target_architectures[k]]

\* C15: a file is at the final path only when the archive has been written
\* completely; when writing it fails, no file is there.
C15_PackAllOrNothing ==
  /\ FinalArchiveWritten => final_zip[1].complete
  /\ pc = "raised" => ~FinalArchiveWritten

\* the slices of a file's content, as a set
Slices(content) == { content[n] : n \in DOMAIN content }

\* C16: when every build step exited with 0 and every base payload identity
\* is in every target's archive, the function returns with the final archive
\* written completely, and for every base payload identity the archive has
\* exactly one file of that identity, which holds the slice of that identity
\* of every non-base target.
C16_CompleteMergedArchive ==
  ( /\ Returned /\ ~build_failed /\ AllArchivesFound
    /\ \A k \in 2..NumTargets : \A x \in BasePayloads : Present(x, k) )
  =>
    /\ FinalArchiveWritten /\ final_zip[1].complete
    /\ \A x \in BasePayloads :
         /\ Cardinality({ p \in DOMAIN final_zip[1].entries :
                            basename(p) = basename(x) }) = 1
         /\ \A k \in 2..NumTargets :
              [arch |-> g_target_architectures[k], name |-> basename(x)]
                \in Slices(final_zip[1].entries[x])

\* C17: at most one merge-tool process runs at any time; while one runs the
\* driver waits in subprocess.call and every build has run all its steps, so
\* the next merge starts only when the one before has returned.
C17_OneMergeAtATime ==
  /\ Cardinality(tool_procs) <= 1
  /\ tool_procs # {} => (pc = "call" /\ AllBuildsDone)
  /\ pc = "merge" => tool_procs = {}

\* C17 witness: on macos a merge-tool process runs after an earlier
\* invocation has returned.
C17_Witness ==
  /\ platform = "macos" /\ pc = "call"
  /\ Cardinality(tool_procs) = 1 /\ mergeLog # <<>>

\* C18: in a run in which a build step exited non-zero or some target's
\* directory holds no archive, the merge tool is never started, whatever the
\* position of that target in the list.
C18_NoMergeAfterFailedArtifact ==
  (AllBuildsDone /\ (build_failed \/ ~AllArchivesFound)) =>
    (mergeLog = <<>> /\ tool_procs = {})

\* the k-th build is under way
Building(k) ==
  IF platform = "android"
    THEN pc = "build" /\ i = k
    ELSE tpc[k] \notin {"unstarted", "done"}

\* the next step of the k-th build
BuildStep(k) ==
  IF platform = "android"
    THEN i = k /\ (AndroidSetup \/ AndroidConfigure \/ AndroidMake \/ AndroidPackage)
    ELSE \/ MacosArchSetup(k) \/ MacosArchConfigure(k)
         \/ MacosArchMake(k) \/ MacosArchPackage(k)

\* the k-th build has run configure, make and package
RanAllSteps(k) == tpc[k] = "done" /\ last_call[k].cmd = "cpack"

C20_AndroidArgsDoNotCarryOver ==
  platform = "android" =>
    /\ \A k \in DOMAIN tpc :
         last_call[k].cmd = "cmake"
           => last_call[k].flags = <<g_target_architectures[k]>>
    /\ pc \in MergePhase => cmake_args = <<>>

\* a step leaves the staging tree with the same files, and changes the
\* content of a file only when it is the base payload file of the running
\* merge-tool process, started for the current architecture with a file the
\* glob matched in that architecture's scratch directory
StagingFrame ==
  /\ DOMAIN temp_dirs'[1] = DOMAIN temp_dirs[1]
  /\ \A p \in DOMAIN temp_dirs[1] :
       temp_dirs'[1][p] # temp_dirs[1][p] =>
         /\ pc = "call" /\ IsPayload(p)
         /\ \E proc \in tool_procs :
              /\ proc.base = p /\ proc.index = i
              /\ proc.incoming \in MatchingFiles(temp_dirs[Len(temp_dirs)], p)

\* the file at the final path has only files of the base archive; what a
\* file holds besides its content in the base archive was merged into it by
\* a merge-tool invocation from the file that invocation was given
FinalFromBaseAndMatched ==
  FinalArchiveWritten =>
    /\ DOMAIN final_zip[1].entries \subseteq zipEntries[g_target_architectures[1]]
    /\ \A p \in DOMAIN final_zip[1].entries :
         /\ final_zip[1].entries[p][1] =
              [arch |-> g_target_architectures[1], name |-> basename(p)]
         /\ \A n \in 2..Len(final_zip[1].entries[p]) :
              \E m \in MergesInto(p) :
                /\ mergeLog[m].status = 0
                /\ final_zip[1].entries[p][n] =
                     [arch |-> mergeLog[m].arch,
                      name |-> basename(mergeLog[m].incoming)]

\* C21: once the base archive is extracted, no step up to packing adds a file
\* to the staging tree or removes one, and a step changes only the base
\* payload file for which the current architecture supplied a match; after
\* every step the final archive holds nothing of a non-base archive but what
\* was merged from matched payload files.
C21_MergeChangesOnlyMatchedPayloads ==
  [][ /\ (zip_base_name # "" /\ pc \in {"find", "merge", "call", "pack"})
          => StagingFrame
      /\ FinalFromBaseAndMatched' ]_vars

\* C21 witness: the final archive is written with a payload file into which
\* the second target's slice was merged and a non-payload file as extracted
\* from the base archive, while the second target's archive has a payload
\* file that matches no base payload file and is not in the final archive.
C21_Witness ==
  /\ Returned /\ FinalArchiveWritten /\ NumTargets = 2
  /\ \E p \in BasePayloads : Len(final_zip[1].entries[p]) = 2
  /\ final_zip[1].entries[Readme] =
       <<[arch |-> g_target_architectures[1], name |-> basename(Readme)]>>
  /\ \E f \in zipEntries[g_target_architectures[2]] :
       /\ IsPayload(f)
       /\ \A x \in BasePayloads : f \notin MatchingFiles(temp_dirs[2], x)
       /\ f \notin DOMAIN final_zip[1].entries

\* the function was left by the exception of a failed write of the final
\* archive
Raised == pc = "raised"

\* the function returned early: the directory of the current architecture
\* had no archive
ReturnedEarly ==
  Returned /\ ~FinalArchiveWritten /\ ArchZipPath(CurrentArch) = {}

====
